---- MODULE Spec2Model ----
(***************************************************************************)
(* A model of dhaan-ish/commerce-multi-agent-customer-care:                *)
(*   - Agent (src/a2a_azure/agent.py): plugin initialisation,              *)
(*     process_request over a per-context history store, and cleanup;      *)
(*   - HostAgent (src/a2a_azure/host_agent.py): the dynamic tool registry, *)
(*     orchestrate, add_agent_endpoint and the remote agent proxy          *)
(*     DynamicAgentTool._send_to_agent;                                    *)
(*   - the server wrapper (src/a2a_azure/server.py) and A2AAgentExecutor   *)
(*     (src/a2a_azure/agent_executor.py);                                  *)
(*   - the inventory tools (src/ecommerce/mcp_servers) and the email       *)
(*     monitor (src/mail).                                                 *)
(* The scheduling is asyncio's: one task per call, and a task gives up the *)
(* processor only at an await of a network call.  Every action below is    *)
(* the code that runs between two such suspension points.                  *)
(***************************************************************************)
EXTENDS Integers, Sequences, FiniteSets, TLC

VARIABLES
    \* ---- conversation stores of the two agents
    history_store,        \* [agent -> [context id -> reference into heap, 0 = absent]]
    heap,                 \* the ChatHistory objects, by reference (1..Len(heap))
    calls,                \* one record per process_request / orchestrate call
    \* ---- Agent (worker) plugin state
    mcp_sse_urls,         \* Agent.mcp_sse_urls
    mcp_plugins,          \* Agent.mcp_plugins
    plugins_initialized,  \* Agent._plugins_initialized
    chat_agent,           \* Agent.chat_agent: built (not None) and its plugins
    cleanup,              \* the Agent.cleanup coroutine and the releases it attempted
    \* ---- HostAgent registry
    host_state,           \* "new" | "ready" | "config_error"
    agent_endpoints,      \* HostAgent.agent_endpoints
    agent_tools,          \* HostAgent.agent_tools
    chat_plugins,         \* the plugins held by HostAgent.chat_agent
    system_message,       \* HostAgent.system_message
    \* ---- one remote agent proxy call (DynamicAgentTool._send_to_agent)
    proxy,
    \* ---- the server wrapper and the A2A executor of the worker Agent
    server,               \* run_agent_server / AgentServer.start: where it is
    executor,             \* one record per A2AAgentExecutor.execute call
    event_queue,          \* the events each execute call has enqueued
    \* ---- the inventory table and the tool calls on it
    inventory,            \* the row of one SKU: quantity_available, quantity_reserved
    db_calls,             \* one record per reserve_inventory / update_inventory call
    \* ---- the email monitor
    mailbox,              \* the inbox, in mailbox order
    monitor,              \* monitor_emails: its locals and where it is
    handed                \* the emails handed to the processing routine, in order

turnVars  == <<history_store, heap, calls>>
agentVars == <<mcp_sse_urls, mcp_plugins, plugins_initialized, chat_agent,
               cleanup>>
hostVars  == <<host_state, agent_endpoints, agent_tools, chat_plugins,
               system_message>>
serviceVars == <<server, executor, event_queue, inventory, db_calls, mailbox,
                 monitor, handed>>
vars      == <<history_store, heap, calls, mcp_sse_urls, mcp_plugins,
               plugins_initialized, chat_agent, cleanup, host_state,
               agent_endpoints,
               agent_tools, chat_plugins, system_message, proxy,
               server, executor, event_queue, inventory, db_calls, mailbox,
               monitor, handed>>

(***************************************************************************)
(* Bounds of the model.                                                    *)
(***************************************************************************)
MaxCalls == 2
MaxPlugins == 1
MaxEndpoints == 3
MaxDbCalls == 2
MaxStock == 2
MaxEmails == 3

(***************************************************************************)
(* Strings.  TLC treats a string as the sequence of its characters, so     *)
(* formatting is concatenation and re.sub is a scan over the characters.   *)
(***************************************************************************)
Contains(s, sub) ==
    \E i \in 1..(Len(s) + 1) :
        /\ i + Len(sub) - 1 <= Len(s)
        /\ SubSeq(s, i, i + Len(sub) - 1) = sub

StartsWith(s, pre) == Len(pre) <= Len(s) /\ SubSeq(s, 1, Len(pre)) = pre

(***************************************************************************)
(* The conversation store: history_store.get / ChatHistory(...) /          *)
(* history_store[context_id] = chat_history / messages.append.             *)
(***************************************************************************)
CtxIds == {"a", "b"}
UserInputs == {"", "hi"}
Replies == {"ok"}
Agents == {"worker", "host"}
CallIds == 1..MaxCalls

WorkerName == "Order Agent"
WorkerDescription == "Looks up orders"

\* agent.py line 55: system_message or f"You are {name}. {description}"
WorkerSystemMessage == "You are " \o WorkerName \o ". " \o WorkerDescription

EmptyInputError == "User input cannot be empty."
ChatCompletionError == "chat completion failed"

\* ChatMessageContent(role=..., content=...); by is a history variable: the
\* call that appended the message.
ChatMessageContent(role, content, by) ==
    [role |-> role, content |-> content, by |-> by]

\* ChatHistory(messages=[], system_message=...)
ChatHistory(sysmsg) == [messages |-> <<>>, system_message |-> sysmsg]

\* self.history_store.get(context_id): the stored reference, 0 for None
StoreGetAny(store, cid) ==
    IF \E k \in DOMAIN store : store[k] # 0
    THEN store[CHOOSE k \in DOMAIN store : store[k] # 0]
    ELSE 0

StoreGet(store, cid) == store[cid]

\* The get-or-create of process_request / orchestrate: no await separates the
\* get from the store, so it is one step.  Yields the new store, the new
\* heap and the reference the caller holds in chat_history.
GetOrCreateAlways(store, hp, cid, sysmsg) ==
    [store |-> [store EXCEPT ![cid] = Len(hp) + 1],
     heap  |-> Append(hp, ChatHistory(sysmsg)),
     ref   |-> Len(hp) + 1]

GetOrCreate(store, hp, cid, sysmsg) ==
    IF StoreGet(store, cid) = 0
    THEN [store |-> [store EXCEPT ![cid] = Len(hp) + 1],
          heap  |-> Append(hp, ChatHistory(sysmsg)),
          ref   |-> Len(hp) + 1]
    ELSE [store |-> store, heap |-> hp, ref |-> StoreGet(store, cid)]

\* An append that keeps the conversation under a size cap by dropping its
\* oldest turn.
AppendMessageCapped(hp, ref, msg) ==
    [hp EXCEPT ![ref].messages = IF Len(@) >= 2 THEN Append(Tail(@), msg)
                                 ELSE Append(@, msg)]

\* chat_history.messages.append(msg)
AppendMessage(hp, ref, msg) ==
    [hp EXCEPT ![ref].messages = Append(@, msg)]

\* The record of a call.  chat_history, i and the result or error are the
\* locals of the coroutine; the rest is history: for an orchestrate call,
\* offered is the plugin list the chat agent last offered the model and
\* registered the number of endpoints registered when the call was made; net
\* the network calls the call itself has issued (handshakes, get_response;
\* the requests of a proxy call are in proxy.log); hs the outcomes of the
\* handshakes the call awaited; alone whether no other turn of the agent was
\* in flight on the context id when the turn began; base and at_end the
\* length of the conversation when the turn began and when it returned.
NewCall ==
    [op |-> "none", agent |-> "none", user_input |-> "", context_id |-> "none",
     pc |-> "new", chat_history |-> 0, i |-> 0, result |-> "", error |-> "",
     offered |-> <<>>, registered |-> 0, net |-> 0, hs |-> <<>>,
     alone |-> FALSE, base |-> 0, at_end |-> 0]

\* Whether a turn of the agent of cl other than c is suspended in
\* get_response on the context id of cl.
InFlight(c, cl) ==
    \E d \in DOMAIN calls :
        /\ d # c
        /\ calls[d].pc = "awaiting"
        /\ calls[d].agent = cl.agent
        /\ calls[d].context_id = cl.context_id

\* Calls arrive in the order of their ids: the id of a call is its arrival rank.
Arrives(c) == calls[c].pc = "new" /\ \A d \in CallIds : d < c => calls[d].pc # "new"

\* The part of a turn from the empty-input check to the await of
\* get_response (agent.py 117-133, host_agent.py 205-221), run by call c of
\* an agent whose system message is sysmsg; cl is the record of the call.
TurnPrefix(c, cl, sysmsg, store, hp) ==
    IF cl.user_input = ""
    THEN [store |-> store, heap |-> hp,
          call  |-> [cl EXCEPT !.pc = "raised", !.error = EmptyInputError]]
    ELSE LET g  == GetOrCreate(store, hp, cl.context_id, sysmsg)
             h2 == AppendMessage(g.heap, g.ref,
                                 ChatMessageContent("user", cl.user_input, c))
         IN [store |-> g.store, heap |-> h2,
             call  |-> [cl EXCEPT !.pc = "awaiting", !.chat_history = g.ref,
                                  !.net = @ + 1,
                                  !.alone = ~InFlight(c, cl),
                                  !.base = Len(g.heap[g.ref].messages)]]


(***************************************************************************)
(* Agent (worker): initialize_plugins, process_request.                    *)
(***************************************************************************)
PluginUrls == <<"http://localhost:8001/sse", "http://localhost:8002/sse",
               "http://localhost:8003/sse">>

\* MCPSsePlugin(name=..., url=url) after a successful __aenter__
MCPSsePlugin(url) == [url |-> url]

\* agent.py 91-97: the chat agent is built over the plugins opened so far and
\* the agent is marked initialized.
BuiltChatAgent(plugins) == [built |-> TRUE, plugins |-> plugins]

NoChatAgent == [built |-> FALSE, plugins |-> <<>>]

\* What follows `await self.initialize_plugins()` in process_request
\* (agent.py 112-133): the chat-agent check, then the turn prefix.
AfterInitialize(c, cl, agent, store, hp) ==
    IF ~agent.built
    THEN [store |-> store, heap |-> hp,
          call  |-> [cl EXCEPT !.pc = "raised",
                               !.error = "Chat agent not initialized. Call initialize_plugins() first."]]
    ELSE TurnPrefix(c, cl, WorkerSystemMessage, store, hp)

\* The end of initialize_plugins, and the caller's continuation, for call c
\* whose record is cl when the plugin list is plugins.
FinishInitialize(c, cl, plugins) ==
    /\ chat_agent' = BuiltChatAgent(plugins)
    /\ plugins_initialized' = TRUE
    /\ IF cl.op = "process_request"
       THEN LET t == AfterInitialize(c, cl, BuiltChatAgent(plugins),
                                     history_store["worker"], heap)
            IN /\ history_store' = [history_store EXCEPT !["worker"] = t.store]
               /\ heap' = t.heap
               /\ calls' = [calls EXCEPT ![c] = t.call]
       ELSE /\ calls' = [calls EXCEPT ![c] = [cl EXCEPT !.pc = "returned"]]
            /\ UNCHANGED <<history_store, heap>>

\* An initialize_plugins without the check of the flag: every call runs the
\* loop.
EnterInitializeAlways(c, cl) ==
    IF mcp_sse_urls = <<>>
    THEN FinishInitialize(c, cl, mcp_plugins)
    ELSE /\ calls' = [calls EXCEPT ![c] = [cl EXCEPT !.pc = "init", !.i = 1,
                                                    !.net = @ + 1]]
         /\ UNCHANGED <<history_store, heap, chat_agent, plugins_initialized>>

\* Entry of initialize_plugins (agent.py 76-85) on behalf of call c: returns
\* at once when already initialized, finishes at once when no url is
\* configured, and otherwise suspends in the first handshake.
EnterInitialize(c, cl) ==
    IF plugins_initialized
    THEN /\ UNCHANGED <<chat_agent, plugins_initialized>>
         /\ IF cl.op = "process_request"
            THEN LET t == AfterInitialize(c, cl, chat_agent,
                                          history_store["worker"], heap)
                 IN /\ history_store' = [history_store EXCEPT !["worker"] = t.store]
                    /\ heap' = t.heap
                    /\ calls' = [calls EXCEPT ![c] = t.call]
            ELSE /\ calls' = [calls EXCEPT ![c] = [cl EXCEPT !.pc = "returned"]]
                 /\ UNCHANGED <<history_store, heap>>
    ELSE IF mcp_sse_urls = <<>>
    THEN FinishInitialize(c, cl, mcp_plugins)
    ELSE /\ calls' = [calls EXCEPT ![c] = [cl EXCEPT !.pc = "init", !.i = 1,
                                                    !.net = @ + 1]]
         /\ UNCHANGED <<history_store, heap, chat_agent, plugins_initialized>>

\* await agent.initialize_plugins() called directly (server.py 39-40, 126-127)
InitializePlugins(c) ==
    /\ Arrives(c)
    /\ EnterInitialize(c, [NewCall EXCEPT !.op = "initialize_plugins",
                                          !.agent = "worker"])
    /\ UNCHANGED <<serviceVars, mcp_sse_urls, mcp_plugins, cleanup, hostVars, proxy>>

\* await agent.process_request(user_input, context_id), up to its first
\* suspension point.
ProcessRequest(c, user_input, context_id) ==
    /\ Arrives(c)
    /\ EnterInitialize(c, [NewCall EXCEPT !.op = "process_request",
                                          !.agent = "worker",
                                          !.user_input = user_input,
                                          !.context_id = context_id])
    /\ UNCHANGED <<serviceVars, mcp_sse_urls, mcp_plugins, cleanup, hostVars, proxy>>

\* `await plugin.__aenter__()` of call c completes (ok) or raises (agent.py
\* 85-89); the loop goes on to the next url or initialize_plugins ends.
Handshake(c, ok) ==
    /\ calls[c].pc = "init"
    /\ LET cl      == [calls[c] EXCEPT !.hs = Append(@, ok)]
           plugins == IF ok
                      THEN Append(mcp_plugins,
                                  MCPSsePlugin(mcp_sse_urls[calls[c].i]))
                      ELSE mcp_plugins
       IN /\ mcp_plugins' = plugins
          /\ IF calls[c].i < Len(mcp_sse_urls)
             THEN /\ calls' = [calls EXCEPT ![c] = [cl EXCEPT !.i = @ + 1,
                                                             !.net = @ + 1]]
                  /\ UNCHANGED <<history_store, heap, chat_agent,
                                 plugins_initialized>>
             ELSE FinishInitialize(c, cl, plugins)
    /\ UNCHANGED <<serviceVars, mcp_sse_urls, cleanup, hostVars, proxy>>

(***************************************************************************)
(* Agent.cleanup (agent.py 141-148).                                       *)
(***************************************************************************)
\* The cleanup coroutine: i is the position of the for loop in mcp_plugins,
\* log the __aexit__ calls it has made, each with the plugin's url and
\* whether the call completed (ok) or raised an Exception.
\* n is history: the number of plugins open when cleanup was called.
IdleCleanup == [pc |-> "idle", i |-> 0, log |-> <<>>, n |-> 0]

\* A loop whose try encloses the for: the first failing release is logged
\* and ends the loop.
CleanupStepStopsOnFailure(cu, plugins, ok) ==
    LET logged == Append(cu.log, [url |-> plugins[cu.i].url, ok |-> ok])
    IN IF ok /\ cu.i < Len(plugins)
       THEN [cu EXCEPT !.i = @ + 1, !.log = logged]
       ELSE [cu EXCEPT !.pc = "returned", !.log = logged]

\* One iteration of the loop of lines 143-148, from the completion of
\* `await plugin.__aexit__(None, None, None)` to the next await or the
\* return.  The for statement reads the list as it is when it advances.
CleanupStep(cu, plugins, ok) ==
    LET logged == Append(cu.log, [url |-> plugins[cu.i].url, ok |-> ok])
    IN IF cu.i < Len(plugins)
       THEN [cu EXCEPT !.i = @ + 1, !.log = logged]
       ELSE [cu EXCEPT !.pc = "returned", !.log = logged]

\* The entry of cleanup (agent.py 143-145): returns at once when no plugin
\* is open, and otherwise suspends in the first release.
EnterCleanup(cu, plugins) ==
    IF plugins = <<>>
    THEN [cu EXCEPT !.pc = "returned"]
    ELSE [cu EXCEPT !.pc = "exit", !.i = 1, !.n = Len(plugins)]

\* await agent.cleanup() (server.py 67-68, 159-160)
Cleanup ==
    /\ cleanup.pc = "idle"
    /\ cleanup' = EnterCleanup(cleanup, mcp_plugins)
    /\ UNCHANGED <<serviceVars, turnVars, mcp_sse_urls, mcp_plugins, plugins_initialized,
                   chat_agent, hostVars, proxy>>

\* `await plugin.__aexit__(None, None, None)` completes or raises
Release(ok) ==
    /\ cleanup.pc = "exit"
    /\ cleanup' = CleanupStep(cleanup, mcp_plugins, ok)
    /\ UNCHANGED <<serviceVars, turnVars, mcp_sse_urls, mcp_plugins, plugins_initialized,
                   chat_agent, hostVars, proxy>>

(***************************************************************************)
(* HostAgent.orchestrate, and the end of a turn of either agent.           *)
(***************************************************************************)
\* host_agent.py 192-221
Orchestrate(c, user_input, context_id) ==
    /\ Arrives(c)
    /\ host_state = "ready"
    /\ LET cl == [NewCall EXCEPT !.op = "orchestrate", !.agent = "host",
                                 !.user_input = user_input,
                                 !.context_id = context_id,
                                 !.offered = chat_plugins,
                                 !.registered = Len(agent_endpoints)]
           t  == TurnPrefix(c, cl, system_message, history_store["host"], heap)
       IN /\ history_store' = [history_store EXCEPT !["host"] = t.store]
          /\ heap' = t.heap
          /\ calls' = [calls EXCEPT ![c] = t.call]
    /\ UNCHANGED <<serviceVars, agentVars, hostVars, proxy>>

\* A return that hands the reply to the caller without recording it.
GetResponseReturnsUnrecorded(c, reply) ==
    /\ calls[c].pc = "awaiting"
    /\ ~(proxy.pc # "idle" /\ proxy.caller = c)
    /\ calls' = [calls EXCEPT ![c].pc = "returned", ![c].result = reply,
                              ![c].at_end = Len(heap[calls[c].chat_history].messages)]
    /\ UNCHANGED <<serviceVars, history_store, heap, agentVars, hostVars, proxy>>

\* get_response returns reply: the assistant turn is appended to the
\* ChatHistory the call holds and the content is returned (agent.py 133-139,
\* host_agent.py 221-227).
GetResponseReturns(c, reply) ==
    /\ calls[c].pc = "awaiting"
    /\ ~(proxy.pc # "idle" /\ proxy.caller = c)
    /\ heap' = AppendMessage(heap, calls[c].chat_history,
                             ChatMessageContent("assistant", reply, c))
    /\ calls' = [calls EXCEPT ![c].pc = "returned", ![c].result = reply,
                              ![c].at_end = Len(heap'[calls[c].chat_history].messages)]
    /\ UNCHANGED <<serviceVars, history_store, agentVars, hostVars, proxy>>

\* get_response raises: nothing in the turn catches it.
GetResponseRaises(c) ==
    /\ calls[c].pc = "awaiting"
    /\ ~(proxy.pc # "idle" /\ proxy.caller = c)
    /\ calls' = [calls EXCEPT ![c].pc = "raised",
                              ![c].error = ChatCompletionError]
    /\ UNCHANGED <<serviceVars, history_store, heap, agentVars, hostVars, proxy>>


(***************************************************************************)
(* The dynamic tool registry: create_agent_tool_class, HostAgent.__init__, *)
(* add_agent_endpoint.                                                     *)
(***************************************************************************)
AlnumChars == "0123456789ABCDEFGHIJKLMNOPQRSTUVWXYZabcdefghijklmnopqrstuvwxyz"

AlnumSet == { SubSeq(AlnumChars, i, i) : i \in 1..Len(AlnumChars) }

IsAlnum(ch) == ch \in AlnumSet

\* re.sub(r'[^0-9A-Za-z]', '', s)
RECURSIVE StripNonAlnum(_)
StripNonAlnum(s) ==
    IF Len(s) = 0 THEN ""
    ELSE (IF IsAlnum(SubSeq(s, 1, 1)) THEN SubSeq(s, 1, 1) ELSE "")
         \o StripNonAlnum(SubSeq(s, 2, Len(s)))

\* The endpoint dicts of the configuration.  Among them are display names
\* that coincide or differ only in a non-alphanumeric character, two
\* endpoints with one function_name, and one without function_name.
OrderEndpoint ==
    [url |-> "http://localhost:8101", name |-> "Order Agent",
     function_name |-> "check_order_status", description |-> "Manages orders"]

OrderEndpoint2 ==
    [url |-> "http://localhost:8102", name |-> "Order-Agent",
     function_name |-> "check_order_v2", description |-> "Manages orders"]

OrderEndpoint3 ==
    [url |-> "http://localhost:8103", name |-> "Order Agent",
     function_name |-> "track_order", description |-> "Tracks orders"]

FraudEndpoint ==
    [url |-> "http://localhost:8105", name |-> "Fraud Agent",
     function_name |-> "check_order_status", description |-> ""]

ShippingEndpoint ==
    [url |-> "http://localhost:8104", name |-> "Shipping Agent",
     description |-> "Manages shipping"]

AddableEndpoints == {OrderEndpoint, OrderEndpoint2, OrderEndpoint3, FraudEndpoint}

Endpoints == AddableEndpoints \cup {ShippingEndpoint}

Configs ==
    UNION { [1..n -> Endpoints] : n \in 0..MaxEndpoints }

\* dict.get(key, default)
DictGet(d, key, default) == IF key \in DOMAIN d THEN d[key] ELSE default

\* A class whose function is decorated without a description: the
\* docstring of _send_to_agent is what the decorator then exposes.
CreateAgentToolUndescribed(agent_name, agent_url, agent_description, function_name) ==
    [class_name         |-> StripNonAlnum(agent_name) \o "Tool",
     agent_url          |-> agent_url,
     agent_name         |-> agent_name,
     agent_description  |-> agent_description,
     function_name      |-> function_name,
     kernel_name        |-> function_name,
     kernel_description |-> "Send a request to the remote agent."]

\* create_agent_tool_class(...)(): the instance of the class synthesized for
\* one endpoint.  The four attributes are those of __init__ (lines 43-46);
\* kernel_name and kernel_description are what kernel_function exposes
\* (lines 103-106).
CreateAgentTool(agent_name, agent_url, agent_description, function_name) ==
    [class_name         |-> StripNonAlnum(agent_name) \o "Tool",
     agent_url          |-> agent_url,
     agent_name         |-> agent_name,
     agent_description  |-> agent_description,
     function_name      |-> function_name,
     kernel_name        |-> function_name,
     kernel_description |-> "Send a request to " \o agent_name \o ": "
                            \o agent_description]

ToolOfEndpoint(endpoint) ==
    CreateAgentTool(endpoint.name, endpoint.url,
                    DictGet(endpoint, "description", ""),
                    endpoint.function_name)

\* A loop that reads the loop variable when the tool is used, not when it is
\* built: every tool ends bound to the last endpoint's url.
BuildToolsLateBinding(endpoints) ==
    [i \in 1..Len(endpoints) |->
        [ToolOfEndpoint(endpoints[i]) EXCEPT
            !.agent_url = endpoints[Len(endpoints)].url]]

\* HostAgent.__init__ lines 152-162: one tool per endpoint, in order
BuildTools(endpoints) ==
    [i \in 1..Len(endpoints) |-> ToolOfEndpoint(endpoints[i])]

HostName == "Host Agent"
HostDescription == "An orchestration agent that coordinates multiple specialized agents"

\* "\n".join of the per-endpoint lines (lines 165-168)
RECURSIVE AgentDescriptions(_)
AgentDescriptions(endpoints) ==
    IF Len(endpoints) = 0 THEN ""
    ELSE LET e == endpoints[1]
             line == "- " \o e.name \o " (use function '" \o e.function_name
                     \o "'): "
                     \o DictGet(e, "description", "No description provided")
         IN IF Len(endpoints) = 1 THEN line
            ELSE line \o "\n" \o AgentDescriptions(Tail(endpoints))

\* lines 169-173
DefaultSystemMessage(endpoints) ==
    "You are " \o HostName \o ". " \o HostDescription \o "\n\n"
    \o "You have access to the following specialized agents:\n"
    \o AgentDescriptions(endpoints) \o "\n\n"
    \o "Use these agents to help answer user requests by delegating tasks to the appropriate agent."

\* lines 146-148
MissingFunctionName(endpoints) ==
    \E i \in 1..Len(endpoints) : "function_name" \notin DOMAIN endpoints[i]

\* A constructor that merges the two loops: the check of an endpoint is
\* made when its turn comes, after the tools of the endpoints before it
\* were built.
ConstructLazyValidation(config) ==
    /\ host_state = "new"
    /\ agent_endpoints' = config
    /\ IF MissingFunctionName(config)
       THEN LET first == CHOOSE i \in 1..Len(config) :
                            /\ "function_name" \notin DOMAIN config[i]
                            /\ \A j \in 1..(i - 1) :
                                  "function_name" \in DOMAIN config[j]
            IN /\ host_state' = "config_error"
               /\ agent_tools' = BuildTools(SubSeq(config, 1, first - 1))
               /\ UNCHANGED <<chat_plugins, system_message>>
       ELSE /\ host_state' = "ready"
            /\ agent_tools' = BuildTools(config)
            /\ chat_plugins' = BuildTools(config)
            /\ system_message' = DefaultSystemMessage(config)
    /\ UNCHANGED <<serviceVars, turnVars, agentVars, proxy>>

\* HostAgent(agent_endpoints=config)
Construct(config) ==
    /\ host_state = "new"
    /\ agent_endpoints' = config
    /\ IF MissingFunctionName(config)
       THEN /\ host_state' = "config_error"
            /\ UNCHANGED <<agent_tools, chat_plugins, system_message>>
       ELSE /\ host_state' = "ready"
            /\ agent_tools' = BuildTools(config)
            /\ chat_plugins' = BuildTools(config)
            /\ system_message' = DefaultSystemMessage(config)
    /\ UNCHANGED <<serviceVars, turnVars, agentVars, proxy>>

\* What add_agent_endpoint leaves in chat_agent.plugins (line 252): the tool
\* list with the new tool.
PluginsAfterAddStale(old_plugins, tools) == old_plugins

PluginsAfterAdd(old_plugins, tools) == tools

\* An add that rebinds in place: the tool objects already built, the one a
\* suspended proxy call runs on included, are pointed at the new url.
AddAgentEndpointInPlace(url, name, function_name, description) ==
    /\ host_state = "ready"
    /\ Len(agent_endpoints) < MaxEndpoints
    /\ LET endpoint == [url |-> url, name |-> name,
                        function_name |-> function_name,
                        description |-> description]
           rebound  == [i \in 1..Len(agent_tools) |->
                           [agent_tools[i] EXCEPT !.agent_url = url]]
           tools    == Append(rebound,
                              CreateAgentTool(name, url, description, function_name))
       IN /\ agent_endpoints' = Append(agent_endpoints, endpoint)
          /\ agent_tools' = tools
          /\ chat_plugins' = tools
          /\ proxy' = [proxy EXCEPT !.tool.agent_url = url]
    /\ UNCHANGED <<serviceVars, host_state, system_message, turnVars, agentVars>>

\* HostAgent.add_agent_endpoint(url, name, function_name, description); the
\* registry of the model holds at most MaxEndpoints endpoints.
AddAgentEndpoint(url, name, function_name, description) ==
    /\ host_state = "ready"
    /\ Len(agent_endpoints) < MaxEndpoints
    /\ LET endpoint == [url |-> url, name |-> name,
                        function_name |-> function_name,
                        description |-> description]
           tools == Append(agent_tools,
                           CreateAgentTool(name, url, description, function_name))
       IN /\ agent_endpoints' = Append(agent_endpoints, endpoint)
          /\ agent_tools' = tools
          /\ chat_plugins' = PluginsAfterAdd(chat_plugins, tools)
    /\ UNCHANGED <<serviceVars, host_state, system_message, turnVars, agentVars, proxy>>


(***************************************************************************)
(* The remote agent proxy: DynamicAgentTool._send_to_agent (lines 48-98).  *)
(***************************************************************************)
\* Exceptions, as type and str(e).
NoException == [type |-> "None", detail |-> ""]

\* What httpx.AsyncClient(...) raises when the process environment names a
\* proxy it cannot use.
SetupExceptions ==
    { [type |-> "ValueError", detail |-> "Unknown scheme for proxy URL"] }

\* httpx.Timeout(30.0) (line 58) arms the connect, read, write and pool
\* timeouts; each has its own exception class.
TimeoutTypes == {"ConnectTimeout", "ReadTimeout", "WriteTimeout", "PoolTimeout"}

RequestExceptions ==
    { [type |-> t, detail |-> "timed out"] : t \in TimeoutTypes }
    \cup { [type |-> "ConnectError", detail |-> "All connection attempts failed"] }

\* response.model_dump(mode='json', exclude_none=True): the reply envelopes.
NoReply == [none |-> TRUE]

ErrorEnvelopes ==
    { [id |-> "1", error |-> [code |-> "-32603", message |-> m]] :
        m \in {"X", "Task failed"} }
    \cup { [id |-> "1", error |-> [code |-> "-32603"]] }

SuccessEnvelopes ==
    { [id |-> "1", result |-> [parts |-> <<[kind |-> "text", text |-> "ORD1 shipped"]>>]],
      [id |-> "1", result |-> [parts |-> <<[kind |-> "text", text |-> "first"],
                                           [kind |-> "text", text |-> "second"]>>]],
      [id |-> "1", result |-> [parts |-> <<[kind |-> "file", file |-> "label.pdf"]>>]],
      [id |-> "1", result |-> [parts |-> <<>>]],
      [id |-> "1", result |-> [status |-> "working"]],
      [id |-> "1"] }

Envelopes == ErrorEnvelopes \cup SuccessEnvelopes

\* line 85 without the word "agent"
ErrorFromAgentBare(agent_name, error_message) ==
    "Error from " \o agent_name \o ": " \o error_message

\* line 85
ErrorFromAgent(agent_name, error_message) ==
    "Error from " \o agent_name \o " agent: " \o error_message

\* line 91
UnexpectedFormat(agent_name) ==
    "Error: Unexpected response format from " \o agent_name \o " agent"

\* line 95
TakingLonger(agent_name) ==
    "Error: The " \o agent_name
    \o " agent is taking longer than expected. Please try again."

\* line 98
ErrorConnecting(agent_name, detail) ==
    "Error connecting to " \o agent_name \o " agent: " \o detail

\* The except clauses of lines 93-98, for an exception e raised in the try
ExceptHandler(agent_name, e) ==
    IF e.type = "ReadTimeout"
    THEN [raised |-> FALSE, ret |-> TakingLonger(agent_name), exc |-> NoException]
    ELSE [raised |-> FALSE, ret |-> ErrorConnecting(agent_name, e.detail),
          exc |-> NoException]

\* Lines 82-91 on the decoded reply: the returned string, or the KeyError
\* of result["result"]["parts"][0]["text"], which the handler then sees.
Decode(agent_name, result) ==
    IF "error" \in DOMAIN result
    THEN [raised |-> FALSE,
          ret |-> ErrorFromAgent(agent_name,
                    DictGet(result.error, "message", "Unknown error occurred")),
          exc |-> NoException]
    ELSE IF /\ "result" \in DOMAIN result
            /\ "parts" \in DOMAIN result.result
            /\ Len(result.result.parts) > 0
    THEN IF "text" \in DOMAIN result.result.parts[1]
         THEN [raised |-> FALSE, ret |-> result.result.parts[1].text,
               exc |-> NoException]
         ELSE ExceptHandler(agent_name, [type |-> "KeyError", detail |-> "'text'"])
    ELSE [raised |-> FALSE, ret |-> UnexpectedFormat(agent_name),
          exc |-> NoException]

IdleProxy ==
    [pc |-> "idle", caller |-> 0, tool |-> ToolOfEndpoint(OrderEndpoint),
     user_input |-> "", reply |-> NoReply, replied |-> FALSE, ret |-> "",
     exc |-> NoException, timed_out |-> FALSE, log |-> <<>>]

\* The proxy call ends: it returned ret, or exc escaped it.
ProxyEnds(p, outcome) ==
    [p EXCEPT !.pc  = IF outcome.raised THEN "raised" ELSE "returned",
              !.ret = outcome.ret,
              !.exc = outcome.exc]

\* The chat-completion layer of orchestrate call c invokes the k-th plugin
\* it holds with one instruction string.
ToolCall(c, k, instruction) ==
    /\ calls[c].pc = "awaiting"
    /\ calls[c].agent = "host"
    /\ proxy.pc = "idle"
    /\ k \in 1..Len(chat_plugins)
    /\ proxy' = [IdleProxy EXCEPT !.pc = "enter", !.caller = c,
                                  !.tool = chat_plugins[k],
                                  !.user_input = instruction]
    /\ calls' = [calls EXCEPT ![c].offered = chat_plugins]
    /\ UNCHANGED <<serviceVars, history_store, heap, agentVars, hostVars>>

\* line 58: the client is built and entered, outside the try; then
\* get_agent_card is awaited (lines 60-61).
ProxyEnterOk ==
    /\ proxy.pc = "enter"
    /\ proxy' = [proxy EXCEPT !.pc = "card",
                              !.log = Append(@, [request |-> "agent_card",
                                                 url |-> proxy.tool.agent_url])]
    /\ UNCHANGED <<serviceVars, turnVars, agentVars, hostVars>>

ProxyEnterRaises(e) ==
    /\ proxy.pc = "enter"
    /\ proxy' = [proxy EXCEPT !.pc = "raised", !.exc = e]
    /\ UNCHANGED <<serviceVars, turnVars, agentVars, hostVars>>

\* get_agent_card returns the card the endpoint serves for its own url; the
\* request is built and send_message awaited (lines 63-78).
ProxyCardOk ==
    /\ proxy.pc = "card"
    /\ proxy' = [proxy EXCEPT !.pc = "send",
                              !.log = Append(@, [request |-> "send_message",
                                                 url |-> proxy.tool.agent_url])]
    /\ UNCHANGED <<serviceVars, turnVars, agentVars, hostVars>>

\* A proxy that sends the request again when it fails.
ProxyRequestRetries(e) ==
    /\ proxy.pc \in {"card", "send"}
    /\ proxy' = [proxy EXCEPT !.timed_out = e.type \in TimeoutTypes,
                              !.log = Append(@, @[Len(@)])]
    /\ UNCHANGED <<serviceVars, turnVars, agentVars, hostVars>>

\* get_agent_card or send_message raises e
ProxyRequestRaises(e) ==
    /\ proxy.pc \in {"card", "send"}
    /\ proxy' = ProxyEnds([proxy EXCEPT !.timed_out = e.type \in TimeoutTypes],
                          ExceptHandler(proxy.tool.agent_name, e))
    /\ UNCHANGED <<serviceVars, turnVars, agentVars, hostVars>>

\* send_message returns the reply envelope; it is decoded (lines 79-91)
ProxyReply(envelope) ==
    /\ proxy.pc = "send"
    /\ proxy' = ProxyEnds([proxy EXCEPT !.reply = envelope, !.replied = TRUE],
                          Decode(proxy.tool.agent_name, envelope))
    /\ UNCHANGED <<serviceVars, turnVars, agentVars, hostVars>>

\* The outcome of the tool goes back to the chat-completion layer of the
\* turn, which goes on.
ToolResult ==
    /\ proxy.pc \in {"returned", "raised"}
    /\ calls[proxy.caller].pc = "awaiting"
    /\ proxy' = IdleProxy
    /\ UNCHANGED <<serviceVars, turnVars, agentVars, hostVars>>


(***************************************************************************)
(* The server wrapper (src/a2a_azure/server.py) around a worker Agent:     *)
(* run_agent_server and AgentServer.start.                                 *)
(***************************************************************************)
ServerKinds == {"run_agent_server", "AgentServer.start"}

\* The call record of the wrapper's own `await agent.initialize_plugins()`.
ServerCall == 1

\* The wrapper coroutine: pc is where it is, raised whether an exception is
\* propagating out of it.
NewServer == [kind |-> "none", pc |-> "new", raised |-> FALSE]

\* server.py 39-40, 126-127: the wrapper is called and awaits
\* agent.initialize_plugins().
ServerStart(kind) ==
    /\ server.pc = "new"
    /\ Arrives(ServerCall)
    /\ EnterInitialize(ServerCall, [NewCall EXCEPT !.op = "initialize_plugins",
                                                   !.agent = "worker"])
    /\ server' = [server EXCEPT !.kind = kind, !.pc = "initializing"]
    /\ UNCHANGED <<mcp_sse_urls, mcp_plugins, cleanup, hostVars, proxy,
                   executor, event_queue, inventory, db_calls, mailbox,
                   monitor, handed>>

\* server.py 42-55, 129-148: after initialize_plugins returned, the executor,
\* the request handler and the application (for AgentServer.start also
\* app.build(), uvicorn.Config and uvicorn.Server) are built.  These
\* statements stand before the try: when one raises (ok = FALSE) the
\* exception leaves the wrapper at once.
ServerBuild(ok) ==
    /\ server.pc = "initializing"
    /\ calls[ServerCall].pc = "returned"
    /\ server' = IF ok
                 THEN [server EXCEPT !.pc = "serving"]
                 ELSE [server EXCEPT !.pc = "exited", !.raised = TRUE]
    /\ UNCHANGED <<turnVars, agentVars, hostVars, proxy, executor, event_queue,
                   inventory, db_calls, mailbox, monitor, handed>>

\* server.py 57-68, 150-160: serve() returns (ok) or raises inside the try;
\* the finally clause awaits agent.cleanup() either way.
ServeEnds(ok) ==
    /\ server.pc = "serving"
    /\ cleanup.pc = "idle"
    /\ server' = [server EXCEPT !.pc = "cleaning", !.raised = ~ok]
    /\ cleanup' = EnterCleanup(cleanup, mcp_plugins)
    /\ UNCHANGED <<turnVars, mcp_sse_urls, mcp_plugins, plugins_initialized,
                   chat_agent, hostVars, proxy, executor, event_queue,
                   inventory, db_calls, mailbox, monitor, handed>>

\* server.py 69, 161: agent.cleanup() has returned and control leaves the
\* wrapper.
ServerReturns ==
    /\ server.pc = "cleaning"
    /\ cleanup.pc = "returned"
    /\ server' = [server EXCEPT !.pc = "exited"]
    /\ UNCHANGED <<turnVars, agentVars, hostVars, proxy, executor, event_queue,
                   inventory, db_calls, mailbox, monitor, handed>>

(***************************************************************************)
(* A2AAgentExecutor (src/a2a_azure/agent_executor.py).                     *)
(***************************************************************************)
\* One execute call: pc is where it is, had_task whether context.current_task
\* was set, user_input and context_id what it read from the context; cancel
\* is the outcome of a cancel call made with the event queue of the request.
NewExecute ==
    [pc |-> "new", had_task |-> FALSE, user_input |-> "",
     context_id |-> "none", cancel |-> "none"]

\* new_task(context.message)
TaskEvent == [kind |-> "task", text |-> ""]

\* new_agent_text_message(text)
AgentTextMessage(text) == [kind |-> "message", text |-> text]

\* The record with which execute calls agent.process_request
ExecuteRequest(user_input, context_id) ==
    [NewCall EXCEPT !.op = "process_request", !.agent = "worker",
                    !.user_input = user_input, !.context_id = context_id]

\* agent_executor.py 38-49: execute reads the context; without a current
\* task it enqueues a new task and suspends in enqueue_event, and with one
\* it goes on to process_request at once.
Execute(c, user_input, context_id, has_task) ==
    /\ server.pc = "serving"
    /\ c # ServerCall
    /\ executor[c].pc = "new"
    /\ Arrives(c)
    /\ IF has_task
       THEN /\ EnterInitialize(c, ExecuteRequest(user_input, context_id))
            /\ executor' = [executor EXCEPT ![c].pc = "awaiting",
                                            ![c].had_task = TRUE,
                                            ![c].user_input = user_input,
                                            ![c].context_id = context_id]
            /\ UNCHANGED event_queue
       ELSE /\ executor' = [executor EXCEPT ![c].pc = "task_enqueued",
                                            ![c].user_input = user_input,
                                            ![c].context_id = context_id]
            /\ event_queue' = [event_queue EXCEPT ![c] = Append(@, TaskEvent)]
            /\ UNCHANGED <<turnVars, plugins_initialized, chat_agent>>
    /\ UNCHANGED <<mcp_sse_urls, mcp_plugins, cleanup, hostVars, proxy, server,
                   inventory, db_calls, mailbox, monitor, handed>>

\* agent_executor.py 49: after the task was enqueued, process_request is
\* called, up to its first suspension point.
ExecuteProcess(c) ==
    /\ executor[c].pc = "task_enqueued"
    /\ Arrives(c)
    /\ EnterInitialize(c, ExecuteRequest(executor[c].user_input,
                                         executor[c].context_id))
    /\ executor' = [executor EXCEPT ![c].pc = "awaiting"]
    /\ UNCHANGED <<mcp_sse_urls, mcp_plugins, cleanup, hostVars, proxy, server,
                   event_queue, inventory, db_calls, mailbox, monitor, handed>>

\* An execute without the except clause: the exception of process_request
\* leaves execute.
ExecuteCompletesPropagates(c) ==
    /\ executor[c].pc = "awaiting"
    /\ calls[c].pc \in {"returned", "raised"}
    /\ IF calls[c].pc = "returned"
       THEN /\ event_queue' = [event_queue EXCEPT
                                  ![c] = Append(@, AgentTextMessage(calls[c].result))]
            /\ executor' = [executor EXCEPT ![c].pc = "returned"]
       ELSE /\ executor' = [executor EXCEPT ![c].pc = "raised"]
            /\ UNCHANGED event_queue
    /\ UNCHANGED <<turnVars, agentVars, hostVars, proxy, server, inventory,
                   db_calls, mailbox, monitor, handed>>

\* agent_executor.py 48-55: process_request returned and its result is
\* enqueued as the agent's text message, or it raised an Exception and
\* "Error: " followed by str(e) is enqueued; execute returns.
ExecuteCompletes(c) ==
    /\ executor[c].pc = "awaiting"
    /\ calls[c].pc \in {"returned", "raised"}
    /\ event_queue' = [event_queue EXCEPT
                          ![c] = Append(@, AgentTextMessage(
                                     IF calls[c].pc = "returned"
                                     THEN calls[c].result
                                     ELSE "Error: " \o calls[c].error))]
    /\ executor' = [executor EXCEPT ![c].pc = "returned"]
    /\ UNCHANGED <<turnVars, agentVars, hostVars, proxy, server, inventory,
                   db_calls, mailbox, monitor, handed>>

\* agent_executor.py 57-62: cancel, called with the event queue of request
\* c, raises Exception('Cancel operation not supported.').
Cancel(c) ==
    /\ server.pc = "serving"
    /\ c # ServerCall
    /\ executor[c].cancel = "none"
    /\ executor' = [executor EXCEPT ![c].cancel = "raised"]
    /\ UNCHANGED <<turnVars, agentVars, hostVars, proxy, server, event_queue,
                   inventory, db_calls, mailbox, monitor, handed>>

(***************************************************************************)
(* The inventory tools (src/ecommerce/mcp_servers/inventory_mcp.py and     *)
(* ecommerce_mcp.py): reserve_inventory and update_inventory over the      *)
(* inventory table of one SQLite database.  Each tool server is a process  *)
(* of its own and each call opens a connection of its own; a tool is a     *)
(* synchronous function, so one server runs one call at a time.  The       *)
(* SELECT runs outside a transaction, so another server's UPDATE can       *)
(* commit between the SELECT and the UPDATE of a call.                     *)
(***************************************************************************)
ToolServers == {"inventory_mcp", "ecommerce_mcp"}

DbCallIds == 1..MaxDbCalls

\* The SKU that has a row, and one that has none.
StockedSku == "SKU-1"
Skus == {StockedSku, "SKU-404"}

\* The quantity arguments: a negative one, one unit, the whole stock.
Quantities == {-1, 1, MaxStock}

Operations == {"add", "subtract"}

\* A tool call: sku, quantity and operation are its arguments; available and
\* new_quantity the locals computed from the row it read; wrote whether its
\* UPDATE was committed; result the success flag of the dictionary returned.
NewDbCall ==
    [op |-> "none", server |-> "none", sku |-> "", quantity |-> 0,
     operation |-> "", pc |-> "new", available |-> 0, new_quantity |-> 0,
     wrote |-> FALSE, result |-> "none"]

\* Whether the tool server runs a call other than k.
Busy(srv, k) ==
    \E j \in DbCallIds :
        j # k /\ db_calls[j].server = srv /\ db_calls[j].pc = "updating"

\* reserve_inventory (inventory_mcp.py 90-109, ecommerce_mcp.py 197-216): the
\* row is read; an unknown SKU and available < quantity return a failure,
\* and otherwise the call goes on to its UPDATE.
ReserveInventory(k, srv, sku, quantity) ==
    /\ db_calls[k].pc = "new"
    /\ ~Busy(srv, k)
    /\ LET cl        == [NewDbCall EXCEPT !.op = "reserve_inventory",
                                          !.server = srv, !.sku = sku,
                                          !.quantity = quantity]
           available == inventory.quantity_available - inventory.quantity_reserved
       IN db_calls' = [db_calls EXCEPT ![k] =
              IF sku # StockedSku
              THEN [cl EXCEPT !.pc = "returned", !.result = "failure"]
              ELSE IF available < quantity
              THEN [cl EXCEPT !.pc = "returned", !.result = "failure",
                              !.available = available]
              ELSE [cl EXCEPT !.pc = "updating", !.available = available]]
    /\ UNCHANGED <<turnVars, agentVars, hostVars, proxy, server, executor,
                   event_queue, inventory, mailbox, monitor, handed>>

\* update_inventory (inventory_mcp.py 148-165): the row is read and
\* new_quantity computed from it; an unknown SKU and new_quantity < 0 return
\* a failure, and otherwise the call goes on to its UPDATE.
UpdateInventory(k, sku, quantity_change, operation) ==
    /\ db_calls[k].pc = "new"
    /\ ~Busy("inventory_mcp", k)
    /\ LET cl           == [NewDbCall EXCEPT !.op = "update_inventory",
                                             !.server = "inventory_mcp",
                                             !.sku = sku,
                                             !.quantity = quantity_change,
                                             !.operation = operation]
           new_quantity == IF operation = "add"
                           THEN inventory.quantity_available + quantity_change
                           ELSE inventory.quantity_available - quantity_change
       IN db_calls' = [db_calls EXCEPT ![k] =
              IF sku # StockedSku
              THEN [cl EXCEPT !.pc = "returned", !.result = "failure"]
              ELSE IF new_quantity < 0
              THEN [cl EXCEPT !.pc = "returned", !.result = "failure",
                              !.new_quantity = new_quantity]
              ELSE [cl EXCEPT !.pc = "updating", !.new_quantity = new_quantity]]
    /\ UNCHANGED <<turnVars, agentVars, hostVars, proxy, server, executor,
                   event_queue, inventory, mailbox, monitor, handed>>

\* The UPDATE of a call on the row as it is now:
\* SET quantity_reserved = quantity_reserved + ?  (inventory_mcp.py 112-116,
\* ecommerce_mcp.py 219-223), SET quantity_available = ?  (167-171).
UpdatedRow(row, cl) ==
    IF cl.op = "reserve_inventory"
    THEN [row EXCEPT !.quantity_reserved = @ + cl.quantity]
    ELSE [row EXCEPT !.quantity_available = cl.new_quantity]

\* The UPDATE and the commit of call k complete and the call returns
\* success (ok), or one of them raises, the except clause rolls back and the
\* call returns a failure (inventory_mcp.py 112-132, 167-188).
Commit(k, ok) ==
    /\ db_calls[k].pc = "updating"
    /\ IF ok
       THEN /\ inventory' = UpdatedRow(inventory, db_calls[k])
            /\ db_calls' = [db_calls EXCEPT ![k].pc = "returned",
                                            ![k].wrote = TRUE,
                                            ![k].result = "success"]
       ELSE /\ inventory' = inventory
            /\ db_calls' = [db_calls EXCEPT ![k].pc = "returned",
                                            ![k].result = "failure"]
    /\ UNCHANGED <<turnVars, agentVars, hostVars, proxy, server, executor,
                   event_queue, mailbox, monitor, handed>>

(***************************************************************************)
(* The email monitor (src/mail/email_to_agent.py and src/mail/check.py):   *)
(* monitor_emails.  The email ids of mail.search(None, "ALL") are IMAP     *)
(* message sequence numbers: the positions 1..n of the messages in the     *)
(* inbox.  An email is named by its delivery rank.                         *)
(***************************************************************************)
\* The inbox: messages in mailbox order, delivered the number of emails
\* ever delivered, expunged the emails removed from the inbox.
Inbox(messages) ==
    [messages |-> messages, delivered |-> Len(messages), expunged |-> {}]

\* The locals of monitor_emails; 0 stands for None.  queue holds the ids
\* still to be processed in the poll under way.  started, polled and seen
\* are history: the number of emails delivered when the monitor read its
\* starting id, when the poll under way read the latest id, and when the
\* latest poll that ran to its end did.
NewMonitor ==
    [pc |-> "new", last_email_id |-> 0, current_latest_id |-> 0,
     queue |-> <<>>, started |-> 0, polled |-> 0, seen |-> 0]

\* get_latest_email_id (email_to_agent.py 51-61, check.py 34-44): the last
\* of the ids, None for an empty inbox
GetLatestEmailId(box) == Len(box.messages)

\* monitor_emails up to the loop (email_to_agent.py 295-310, check.py
\* 188-203): connected, the starting id is read.
MonitorStart ==
    /\ monitor.pc = "new"
    /\ monitor' = [monitor EXCEPT !.pc = "sleeping",
                                  !.last_email_id = GetLatestEmailId(mailbox),
                                  !.started = mailbox.delivered,
                                  !.seen = mailbox.delivered]
    /\ UNCHANGED <<turnVars, agentVars, hostVars, proxy, server, executor,
                   event_queue, inventory, db_calls, mailbox, handed>>

\* process_email_with_agent(mail, email_id) / process_email(mail, email_id):
\* the message with that sequence number is fetched and handed on; a fetch
\* of a number beyond the inbox hands on nothing.
ProcessEmail(hd, box, email_id) ==
    IF email_id \in 1..Len(box.messages)
    THEN Append(hd, box.messages[email_id])
    ELSE hd

\* The monitor after the processing of a poll: with ids left it is
\* suspended in the processing of the next, and without it records
\* last_email_id = current_latest_id and sleeps (email_to_agent.py 345-347).
AfterProcessing(mon, ids) ==
    IF ids # <<>>
    THEN [mon EXCEPT !.pc = "processing", !.queue = ids]
    ELSE [mon EXCEPT !.pc = "sleeping", !.queue = <<>>,
                     !.last_email_id = mon.current_latest_id,
                     !.seen = mon.polled]

\* A poll (email_to_agent.py 312-347, check.py 205-240) up to its next
\* network call: the latest id is read; when it is new, a monitor that has a
\* last id goes on to search the inbox and one that has none processes the
\* latest email.
Poll ==
    /\ monitor.pc = "sleeping"
    /\ LET current == GetLatestEmailId(mailbox)
           mon     == [monitor EXCEPT !.current_latest_id = current,
                                      !.polled = mailbox.delivered]
       IN monitor' =
              IF current # 0 /\ current # monitor.last_email_id
              THEN IF monitor.last_email_id # 0
                   THEN [mon EXCEPT !.pc = "searching"]
                   ELSE [mon EXCEPT !.pc = "processing", !.queue = <<current>>]
              ELSE [mon EXCEPT !.seen = mailbox.delivered]
    /\ UNCHANGED <<turnVars, agentVars, hostVars, proxy, server, executor,
                   event_queue, inventory, db_calls, mailbox, handed>>

\* email_ids[last_index + 1:], and the latest id alone when last_email_id
\* is not among the ids (ValueError, email_to_agent.py 334-341).
NewEmailIds(box, last_email_id, current_latest_id) ==
    IF last_email_id \in 1..Len(box.messages)
    THEN [i \in 1..(Len(box.messages) - last_email_id) |-> last_email_id + i]
    ELSE <<current_latest_id>>

\* The search of the poll returns (ok) and the new ids are queued, or it
\* raises and the except clause of the loop sleeps (email_to_agent.py
\* 329-341, 352-355).
Search(ok) ==
    /\ monitor.pc = "searching"
    /\ monitor' = IF ok
                  THEN AfterProcessing(monitor,
                           NewEmailIds(mailbox, monitor.last_email_id,
                                       monitor.current_latest_id))
                  ELSE [monitor EXCEPT !.pc = "sleeping"]
    /\ UNCHANGED <<turnVars, agentVars, hostVars, proxy, server, executor,
                   event_queue, inventory, db_calls, mailbox, handed>>

\* The processing of the next queued id completes.
ProcessNext ==
    /\ monitor.pc = "processing"
    /\ handed' = ProcessEmail(handed, mailbox, Head(monitor.queue))
    /\ monitor' = AfterProcessing(monitor, Tail(monitor.queue))
    /\ UNCHANGED <<turnVars, agentVars, hostVars, proxy, server, executor,
                   event_queue, inventory, db_calls, mailbox>>

\* An email is delivered to the inbox.
Arrive ==
    /\ mailbox.delivered < MaxEmails
    /\ mailbox' = [mailbox EXCEPT !.messages = Append(@, mailbox.delivered + 1),
                                  !.delivered = @ + 1]
    /\ UNCHANGED <<turnVars, agentVars, hostVars, proxy, server, executor,
                   event_queue, inventory, db_calls, monitor, handed>>

\* The message at position i is removed from the inbox; the messages after
\* it move down by one sequence number.
Expunge(i) ==
    /\ i \in 1..Len(mailbox.messages)
    /\ mailbox' = [mailbox EXCEPT
                      !.messages = SubSeq(@, 1, i - 1) \o SubSeq(@, i + 1, Len(@)),
                      !.expunged = @ \cup {mailbox.messages[i]}]
    /\ UNCHANGED <<turnVars, agentVars, hostVars, proxy, server, executor,
                   event_queue, inventory, db_calls, monitor, handed>>

\* The state of the services outside a specification that follows them.
InitService ==
    /\ server = NewServer
    /\ executor = [c \in CallIds |-> NewExecute]
    /\ event_queue = [c \in CallIds |-> <<>>]
    /\ inventory = [quantity_available |-> 0, quantity_reserved |-> 0]
    /\ db_calls = [k \in DbCallIds |-> NewDbCall]
    /\ mailbox = Inbox(<<>>)
    /\ monitor = NewMonitor
    /\ handed = <<>>

(***************************************************************************)
(* The specifications.                                                     *)
(***************************************************************************)
UrlLists == { SubSeq(PluginUrls, 1, n) : n \in 0..MaxPlugins }

InitTurns ==
    /\ history_store = [ag \in Agents |-> [cid \in CtxIds |-> 0]]
    /\ heap = <<>>
    /\ calls = [c \in CallIds |-> NewCall]

InitAgent ==
    /\ mcp_plugins = <<>>
    /\ plugins_initialized = FALSE
    /\ chat_agent = NoChatAgent
    /\ cleanup = IdleCleanup

\* Turn processing of a worker Agent with any configured plugin urls and of
\* a HostAgent built over one endpoint.
Init ==
    /\ InitTurns
    /\ InitService
    /\ InitAgent
    /\ mcp_sse_urls \in UrlLists
    /\ host_state = "ready"
    /\ agent_endpoints = <<OrderEndpoint>>
    /\ agent_tools = BuildTools(<<OrderEndpoint>>)
    /\ chat_plugins = BuildTools(<<OrderEndpoint>>)
    /\ system_message = DefaultSystemMessage(<<OrderEndpoint>>)
    /\ proxy = IdleProxy

Next ==
    \/ \E c \in CallIds, x \in UserInputs, cid \in CtxIds : ProcessRequest(c, x, cid)
    \/ \E c \in CallIds, x \in UserInputs, cid \in CtxIds : Orchestrate(c, x, cid)
    \/ \E c \in CallIds : InitializePlugins(c)
    \/ \E c \in CallIds, ok \in BOOLEAN : Handshake(c, ok)
    \/ \E c \in CallIds, r \in Replies : GetResponseReturns(c, r)
    \/ \E c \in CallIds : GetResponseRaises(c)

Spec == Init /\ [][Next]_vars

HostTurns == {1}

\* A HostAgent from its construction on: the registry, add_agent_endpoint,
\* turns on one context and the proxy calls made for them.
InitHost ==
    /\ InitTurns
    /\ InitService
    /\ InitAgent
    /\ mcp_sse_urls = <<>>
    /\ host_state = "new"
    /\ agent_endpoints = <<>>
    /\ agent_tools = <<>>
    /\ chat_plugins = <<>>
    /\ system_message = ""
    /\ proxy = IdleProxy

NextHost ==
    \/ \E config \in Configs : Construct(config)
    \/ \E e \in AddableEndpoints :
          AddAgentEndpoint(e.url, e.name, e.function_name, e.description)
    \/ \E c \in HostTurns, x \in UserInputs : Orchestrate(c, x, "a")
    \/ \E c \in HostTurns, k \in 1..MaxEndpoints : ToolCall(c, k, "status of ORD1")
    \/ ProxyEnterOk
    \/ \E e \in SetupExceptions : ProxyEnterRaises(e)
    \/ ProxyCardOk
    \/ \E e \in RequestExceptions : ProxyRequestRaises(e)
    \/ \E envelope \in Envelopes : ProxyReply(envelope)
    \/ ToolResult
    \/ \E c \in HostTurns, r \in Replies : GetResponseReturns(c, r)
    \/ \E c \in HostTurns : GetResponseRaises(c)

SpecHost == InitHost /\ [][NextHost]_vars

\* The calls made on the worker Agent whose life is followed.
LifeCalls == {1, 2}

\* The life of a worker Agent configured with more than one plugin url:
\* initialization, turns on one context id, and cleanup.
InitLife ==
    /\ InitTurns
    /\ InitService
    /\ InitAgent
    /\ mcp_sse_urls = SubSeq(PluginUrls, 1, MaxPlugins + 1)
    /\ host_state = "new"
    /\ agent_endpoints = <<>>
    /\ agent_tools = <<>>
    /\ chat_plugins = <<>>
    /\ system_message = ""
    /\ proxy = IdleProxy

NextLife ==
    \/ \E c \in LifeCalls, x \in UserInputs : ProcessRequest(c, x, "a")
    \/ \E c \in LifeCalls : InitializePlugins(c)
    \/ \E c \in LifeCalls, ok \in BOOLEAN : Handshake(c, ok)
    \/ \E c \in LifeCalls, r \in Replies : GetResponseReturns(c, r)
    \/ \E c \in LifeCalls : GetResponseRaises(c)
    \/ Cleanup
    \/ \E ok \in BOOLEAN : Release(ok)

SpecLife == InitLife /\ [][NextLife]_vars

\* The endpoints the HostAgent of SpecStore is constructed with: one fewer
\* than the registry of the model holds.
StoreConfig ==
    SubSeq(<<OrderEndpoint, OrderEndpoint2, OrderEndpoint3>>, 1, MaxEndpoints - 1)

\* Every operation of the two agents over their conversation stores: a
\* worker Agent with one plugin url and a constructed HostAgent; turns,
\* initialize_plugins, cleanup and add_agent_endpoint.
InitStore ==
    /\ InitTurns
    /\ InitService
    /\ InitAgent
    /\ mcp_sse_urls = <<PluginUrls[1]>>
    /\ host_state = "ready"
    /\ agent_endpoints = StoreConfig
    /\ agent_tools = BuildTools(StoreConfig)
    /\ chat_plugins = BuildTools(StoreConfig)
    /\ system_message = DefaultSystemMessage(StoreConfig)
    /\ proxy = IdleProxy

NextStore ==
    \/ \E c \in CallIds, x \in UserInputs, cid \in CtxIds : ProcessRequest(c, x, cid)
    \/ \E c \in HostTurns, x \in UserInputs : Orchestrate(c, x, "a")
    \/ \E c \in CallIds : InitializePlugins(c)
    \/ \E c \in CallIds, ok \in BOOLEAN : Handshake(c, ok)
    \/ \E c \in CallIds, r \in Replies : GetResponseReturns(c, r)
    \/ \E c \in CallIds : GetResponseRaises(c)
    \/ Cleanup
    \/ \E ok \in BOOLEAN : Release(ok)
    \/ AddAgentEndpoint(FraudEndpoint.url, FraudEndpoint.name,
                        FraudEndpoint.function_name, FraudEndpoint.description)

SpecStore == InitStore /\ [][NextStore]_vars

\* Endpoint dicts whose function_name is not an identifier: empty, with a
\* space, starting with a digit, with punctuation.
UnnamedEndpoint ==
    [url |-> "http://localhost:8106", name |-> "Customer Support Agent",
     function_name |-> "", description |-> "Advocates for the customer"]

SpacedEndpoint ==
    [url |-> "http://localhost:8107", name |-> "Email Agent",
     function_name |-> "handle email", description |-> "Sends email"]

DigitEndpoint ==
    [url |-> "http://localhost:8108", name |-> "Payment Agent",
     function_name |-> "3ds_verify", description |-> "Verifies payments"]

PunctuatedEndpoint ==
    [url |-> "http://localhost:8109", name |-> "Inventory Agent",
     function_name |-> "verify-inventory!", description |-> "Verifies stock"]

OddlyNamedEndpoints ==
    {UnnamedEndpoint, SpacedEndpoint, DigitEndpoint, PunctuatedEndpoint}

RegistryConfigs ==
    UNION { [1..n -> Endpoints \cup OddlyNamedEndpoints] : n \in 0..MaxEndpoints }

\* The name argument of add_agent_endpoint(url, None, function_name).
NoName == [none |-> TRUE]

\* add_agent_endpoint called with a name that is not a string: the endpoint
\* is appended (lines 239-240), then re.sub (line 39) raises TypeError out of
\* create_agent_tool_class and out of the call, before line 250.
AddAgentEndpointUnnamed(url, function_name, description) ==
    /\ host_state = "ready"
    /\ Len(agent_endpoints) < MaxEndpoints
    /\ agent_endpoints' = Append(agent_endpoints,
                                 [url |-> url, name |-> NoName,
                                  function_name |-> function_name,
                                  description |-> description])
    /\ UNCHANGED <<serviceVars, host_state, agent_tools, chat_plugins, system_message,
                   turnVars, agentVars, proxy>>

\* The registry alone, over function_names of every shape: construction
\* and add_agent_endpoint.
NextRegistry ==
    \/ \E config \in RegistryConfigs : Construct(config)
    \/ \E e \in AddableEndpoints \cup OddlyNamedEndpoints :
          AddAgentEndpoint(e.url, e.name, e.function_name, e.description)
    \/ AddAgentEndpointUnnamed(OrderEndpoint2.url, OrderEndpoint2.function_name,
                               OrderEndpoint2.description)

SpecRegistry == InitHost /\ [][NextRegistry]_vars

\* A worker Agent behind the server wrapper: initialization, the building
\* of the application, requests through the A2A executor while serving, and
\* the shutdown.
InitServer ==
    /\ InitTurns
    /\ InitAgent
    /\ InitService
    /\ mcp_sse_urls \in UrlLists
    /\ host_state = "new"
    /\ agent_endpoints = <<>>
    /\ agent_tools = <<>>
    /\ chat_plugins = <<>>
    /\ system_message = ""
    /\ proxy = IdleProxy

NextServer ==
    \/ \E kind \in ServerKinds : ServerStart(kind)
    \/ \E ok \in BOOLEAN : Handshake(ServerCall, ok)
    \/ \E ok \in BOOLEAN : ServerBuild(ok)
    \/ \E c \in CallIds, x \in UserInputs, cid \in CtxIds, t \in BOOLEAN :
          Execute(c, x, cid, t)
    \/ \E c \in CallIds : ExecuteProcess(c)
    \/ \E c \in CallIds, r \in Replies : GetResponseReturns(c, r)
    \/ \E c \in CallIds : GetResponseRaises(c)
    \/ \E c \in CallIds : ExecuteCompletes(c)
    \/ \E c \in CallIds : Cancel(c)
    \/ \E ok \in BOOLEAN : ServeEnds(ok)
    \/ \E ok \in BOOLEAN : Release(ok)
    \/ ServerReturns

SpecServer == InitServer /\ [][NextServer]_vars

\* The rows the inventory table can start with: 0 <= reserved <= available.
InventoryRows ==
    { [quantity_available |-> a, quantity_reserved |-> r] :
          a \in 0..MaxStock, r \in 0..MaxStock }

\* The inventory tools of the two tool servers over one row.
InitInventory ==
    /\ InitTurns
    /\ InitAgent
    /\ mcp_sse_urls = <<>>
    /\ host_state = "new"
    /\ agent_endpoints = <<>>
    /\ agent_tools = <<>>
    /\ chat_plugins = <<>>
    /\ system_message = ""
    /\ proxy = IdleProxy
    /\ server = NewServer
    /\ executor = [c \in CallIds |-> NewExecute]
    /\ event_queue = [c \in CallIds |-> <<>>]
    /\ inventory \in { row \in InventoryRows :
                          row.quantity_reserved <= row.quantity_available }
    /\ db_calls = [k \in DbCallIds |-> NewDbCall]
    /\ mailbox = Inbox(<<>>)
    /\ monitor = NewMonitor
    /\ handed = <<>>

NextInventory ==
    \/ \E k \in DbCallIds, srv \in ToolServers, sku \in Skus, q \in Quantities :
          ReserveInventory(k, srv, sku, q)
    \/ \E k \in DbCallIds, sku \in Skus, q \in Quantities, o \in Operations :
          UpdateInventory(k, sku, q, o)
    \/ \E k \in DbCallIds, ok \in BOOLEAN : Commit(k, ok)

SpecInventory == InitInventory /\ [][NextInventory]_vars

\* The email monitor over an inbox that is empty or holds one email when
\* the monitor starts.
InitMail ==
    /\ InitTurns
    /\ InitAgent
    /\ mcp_sse_urls = <<>>
    /\ host_state = "new"
    /\ agent_endpoints = <<>>
    /\ agent_tools = <<>>
    /\ chat_plugins = <<>>
    /\ system_message = ""
    /\ proxy = IdleProxy
    /\ server = NewServer
    /\ executor = [c \in CallIds |-> NewExecute]
    /\ event_queue = [c \in CallIds |-> <<>>]
    /\ inventory = [quantity_available |-> 0, quantity_reserved |-> 0]
    /\ db_calls = [k \in DbCallIds |-> NewDbCall]
    /\ mailbox \in {Inbox(<<>>), Inbox(<<1>>)}
    /\ monitor = NewMonitor
    /\ handed = <<>>

NextMail ==
    \/ MonitorStart
    \/ Poll
    \/ \E ok \in BOOLEAN : Search(ok)
    \/ ProcessNext
    \/ Arrive
    \/ \E i \in 1..MaxEmails : Expunge(i)

SpecMail == InitMail /\ [][NextMail]_vars



(***************************************************************************)
(* Claims on turn processing (specification Spec).                         *)
(***************************************************************************)
Messages(ag, cid) == heap[history_store[ag][cid]].messages

Started(c) == calls[c].op \in {"process_request", "orchestrate"}

\* C1: the conversation stored under a context id holds only turns appended
\* by calls made on the same agent with that context id, and two context ids
\* of one agent never share a ChatHistory object.
C1_ContextIsolation ==
    \A ag \in Agents, cid \in CtxIds :
        history_store[ag][cid] # 0 =>
            /\ \A i \in 1..Len(Messages(ag, cid)) :
                  /\ calls[Messages(ag, cid)[i].by].context_id = cid
                  /\ calls[Messages(ag, cid)[i].by].agent = ag
            /\ \A other \in CtxIds \ {cid} :
                  history_store[ag][other] # history_store[ag][cid]

\* Two calls of one agent on different context ids overlap at get_response,
\* each with its user turn stored.
C1_Witness ==
    \E c, d \in CallIds :
        /\ c # d
        /\ calls[c].pc = "awaiting" /\ calls[d].pc = "awaiting"
        /\ calls[c].agent = calls[d].agent
        /\ calls[c].context_id # calls[d].context_id
        /\ Len(Messages(calls[c].agent, calls[c].context_id)) > 0
        /\ Len(Messages(calls[d].agent, calls[d].context_id)) > 0

\* C2: a turn with empty input has failed with the empty-input error as soon
\* as it was called, and has made no network call.
C2_EmptyInputNoNetwork ==
    \A c \in CallIds :
        (Started(c) /\ calls[c].user_input = "") =>
            /\ calls[c].pc = "raised"
            /\ calls[c].error = EmptyInputError
            /\ calls[c].net = 0

\* C9: every context id an agent has seen has exactly one ChatHistory, every
\* call holds the object the store holds for its context id, and the user
\* turn each call appended is in that object.
C9_OneConversation ==
    /\ Len(heap) = Cardinality({ p \in Agents \X CtxIds :
                                    history_store[p[1]][p[2]] # 0 })
    /\ \A c \in CallIds :
          calls[c].chat_history # 0 =>
             /\ history_store[calls[c].agent][calls[c].context_id]
                   = calls[c].chat_history
             /\ \E i \in 1..Len(heap[calls[c].chat_history].messages) :
                   heap[calls[c].chat_history].messages[i]
                      = ChatMessageContent("user", calls[c].user_input, c)

\* Two overlapping calls of one agent on one context id, the second having
\* found the conversation the first created.
C9_Witness ==
    \E c, d \in CallIds :
        /\ c < d
        /\ calls[c].pc = "awaiting" /\ calls[d].pc = "awaiting"
        /\ calls[c].agent = calls[d].agent
        /\ calls[c].context_id = calls[d].context_id
        /\ calls[c].chat_history = calls[d].chat_history
        /\ Len(heap[calls[c].chat_history].messages) = 2

\* C10: in every conversation the turns of an earlier-arriving call all
\* come before the turns of a later-arriving call.
C10_ArrivalOrder ==
    \A r \in 1..Len(heap) :
        \A i, j \in 1..Len(heap[r].messages) :
            i < j => heap[r].messages[i].by <= heap[r].messages[j].by

(***************************************************************************)
(* Claims on the registry and the proxy (specification SpecHost).          *)
(***************************************************************************)
ProxyEnded == proxy.pc \in {"returned", "raised"}

\* C3: a proxy call never raises.
C3_ProxyNeverRaises == proxy.pc # "raised"

GotErrorEnvelope ==
    /\ ProxyEnded
    /\ proxy.replied
    /\ "error" \in DOMAIN proxy.reply
    /\ "message" \in DOMAIN proxy.reply.error

C5_TimeoutMessage ==
    (ProxyEnded /\ proxy.timed_out) =>
        /\ proxy.pc = "returned"
        /\ Contains(proxy.ret, "taking longer than expected")

HasText(result) ==
    /\ "result" \in DOMAIN result
    /\ "parts" \in DOMAIN result.result
    /\ Len(result.result.parts) > 0
    /\ "text" \in DOMAIN result.result.parts[1]

\* C6: on a success envelope the call returns the first part's text, and the
\* "Error: Unexpected response format" diagnostic when there is no such text.
C6_SuccessEnvelope ==
    (ProxyEnded /\ proxy.replied /\ "error" \notin DOMAIN proxy.reply) =>
        /\ proxy.pc = "returned"
        /\ IF HasText(proxy.reply)
           THEN proxy.ret = proxy.reply.result.parts[1].text
           ELSE StartsWith(proxy.ret, "Error: Unexpected response format")

DistinctFunctionNames(endpoints) ==
    \A i, j \in 1..Len(endpoints) :
        i # j => endpoints[i].function_name # endpoints[j].function_name

\* C7: with pairwise distinct function_names there is one tool per endpoint,
\* in order, under the endpoint's function_name and bound to its url, and
\* every request of a proxy call goes to the url of the endpoint registered
\* under the function name that was called.
C7_RegistryRoutes ==
    (host_state = "ready" /\ DistinctFunctionNames(agent_endpoints)) =>
        /\ Len(agent_tools) = Len(agent_endpoints)
        /\ \A i \in 1..Len(agent_endpoints) :
              /\ agent_tools[i].kernel_name = agent_endpoints[i].function_name
              /\ agent_tools[i].agent_url = agent_endpoints[i].url
        /\ proxy.pc # "idle" =>
              \A i \in 1..Len(agent_endpoints) :
                  agent_endpoints[i].function_name = proxy.tool.kernel_name =>
                      \A n \in 1..Len(proxy.log) :
                          proxy.log[n].url = agent_endpoints[i].url

\* Three endpoints whose display names give one class name, constructed
\* together: the message was sent through the last one's tool.
C7_Witness ==
    /\ host_state = "ready"
    /\ agent_endpoints = <<OrderEndpoint, OrderEndpoint2, OrderEndpoint3>>
    /\ system_message = DefaultSystemMessage(agent_endpoints)
    /\ agent_tools[1].class_name = agent_tools[2].class_name
    /\ agent_tools[1].class_name = agent_tools[3].class_name
    /\ proxy.pc = "send"
    /\ proxy.tool.kernel_name = OrderEndpoint3.function_name
    /\ Len(proxy.log) = 2

\* C8: the chat agent always holds the registry's tools, so a turn is
\* offered a binding for every endpoint registered before it started, and a
\* tool call of the turn goes to the url of a binding it was offered.
C8_AddVisible ==
    /\ host_state = "ready" => chat_plugins = agent_tools
    /\ \A c \in CallIds :
          (calls[c].agent = "host" /\ calls[c].pc = "awaiting") =>
              \A i \in 1..calls[c].registered :
                  /\ i <= Len(calls[c].offered)
                  /\ calls[c].offered[i].kernel_name
                        = agent_endpoints[i].function_name
                  /\ calls[c].offered[i].agent_url = agent_endpoints[i].url
    /\ proxy.pc # "idle" =>
          /\ \E k \in 1..Len(calls[proxy.caller].offered) :
                calls[proxy.caller].offered[k] = proxy.tool
          /\ \A n \in 1..Len(proxy.log) :
                proxy.log[n].url = proxy.tool.agent_url

\* An endpoint added after construction (the system message is that of the
\* constructor's list), and the message of the next turn sent to its url.
C8_Witness ==
    /\ agent_endpoints = <<OrderEndpoint, OrderEndpoint2>>
    /\ system_message = DefaultSystemMessage(<<OrderEndpoint>>)
    /\ proxy.pc = "send"
    /\ calls[proxy.caller].registered = Len(agent_endpoints)
    /\ proxy.tool = agent_tools[Len(agent_tools)]
    /\ proxy.log[2].url = agent_endpoints[Len(agent_endpoints)].url


(***************************************************************************)
(* Claims on the life of a worker Agent (specification SpecLife).          *)
(***************************************************************************)
\* The plugins a run of the loop of initialize_plugins opens over urls when
\* its handshakes have the outcomes hs.
RECURSIVE OpenedBy(_, _)
OpenedBy(urls, hs) ==
    IF Len(urls) = 0 \/ Len(hs) = 0 THEN <<>>
    ELSE (IF hs[1] THEN <<MCPSsePlugin(urls[1])>> ELSE <<>>)
         \o OpenedBy(Tail(urls), Tail(hs))

\* The call went through the whole loop of initialize_plugins.
RanInitialize(c) ==
    /\ calls[c].op \in {"initialize_plugins", "process_request"}
    /\ calls[c].agent = "worker"
    /\ calls[c].pc # "init"
    /\ Len(calls[c].hs) = Len(mcp_sse_urls)

\* C14: whatever handshakes fail, initialize_plugins returns without
\* raising, the chat agent is built, and the plugin set is exactly the
\* sources whose handshake succeeded, in configuration order, each once.
C14_InitializeEndsReady ==
    /\ \A c \in CallIds :
          calls[c].op = "initialize_plugins" => calls[c].pc \in {"init", "returned"}
    /\ \A c \in CallIds :
          RanInitialize(c) =>
              /\ plugins_initialized
              /\ chat_agent.built
              /\ mcp_plugins = OpenedBy(mcp_sse_urls, calls[c].hs)

\* C15: cleanup never raises, and when it has returned it has attempted one
\* release on each plugin that was open when it was called, in order,
\* whatever releases failed.
C15_CleanupReleasesAll ==
    /\ cleanup.pc \in {"idle", "exit", "returned"}
    /\ Len(cleanup.log) <= Len(mcp_plugins)
    /\ \A k \in 1..Len(cleanup.log) : cleanup.log[k].url = mcp_plugins[k].url
    /\ cleanup.pc = "returned" => Len(cleanup.log) >= cleanup.n

\* cleanup returned after the release of the first of two open plugins
\* failed and the release of the second was attempted.
C15_Witness ==
    /\ cleanup.pc = "returned"
    /\ cleanup.n >= 2
    /\ Len(cleanup.log) = cleanup.n
    /\ ~cleanup.log[1].ok
    /\ cleanup.log[2].ok
    /\ cleanup.log[1].url # cleanup.log[2].url

Closed == cleanup.pc = "returned"

\* C20: once cleanup has returned, a process_request call that arrives
\* dispatches no turn (it reaches neither the handshakes nor get_response
\* and appends nothing), and the agent is not initialized again.
C20_ClosedTerminal ==
    [][Closed =>
          /\ \A c \in CallIds :
                calls[c].pc = "new" => calls'[c].pc \notin {"init", "awaiting"}
          /\ (\E c \in CallIds : calls[c].pc = "new" /\ calls'[c].pc # "new")
                => (history_store' = history_store /\ heap' = heap)
          /\ plugins_initialized' = plugins_initialized]_vars


(***************************************************************************)
(* Claims on the conversation store under every operation (SpecStore).     *)
(***************************************************************************)
IsPrefix(s, t) == Len(s) <= Len(t) /\ SubSeq(t, 1, Len(s)) = s

\* C11: no step removes a context id from a store, and every step leaves
\* the turns stored under a context id as a prefix of the turns stored
\* under it afterwards.
C11_AppendOnly ==
    [][\A ag \in Agents, cid \in CtxIds :
          history_store[ag][cid] # 0 =>
              /\ history_store'[ag][cid] # 0
              /\ IsPrefix(heap[history_store[ag][cid]].messages,
                          heap'[history_store'[ag][cid]].messages)]_vars

\* A conversation that holds a whole turn and the user turn of a turn that
\* failed, in a worker whose plugin was released by cleanup, and a host to
\* which an endpoint was added.
C11_Witness ==
    /\ \E cid \in CtxIds :
          /\ history_store["worker"][cid] # 0
          /\ Len(Messages("worker", cid)) = 3
          /\ \E c \in CallIds :
                calls[c].pc = "raised" /\ calls[c].chat_history = history_store["worker"][cid]
    /\ cleanup.pc = "returned"
    /\ Len(cleanup.log) > 0
    /\ Len(agent_endpoints) = Len(StoreConfig) + 1


(***************************************************************************)
(* Claims on the registry (SpecHost, SpecRegistry).                        *)
(***************************************************************************)
\* C12: no two tool bindings of the registry have the same function_name.
C12_UniqueFunctionNames ==
    host_state = "ready" =>
        \A i, j \in 1..Len(agent_tools) :
            i # j => agent_tools[i].function_name # agent_tools[j].function_name

LacksFunctionName(endpoint) == "function_name" \notin DOMAIN endpoint

\* C13: a construction over a list with a descriptor that has no
\* function_name fails before any tool binding or chat agent is built, and a
\* construction that succeeds exposes every tool under the function_name of
\* its descriptor.
C13_MissingFunctionNameRejected ==
    /\ (host_state # "new"
          /\ \E i \in 1..Len(agent_endpoints) : LacksFunctionName(agent_endpoints[i]))
          => host_state = "config_error"
    /\ host_state = "config_error" =>
          (agent_tools = <<>> /\ chat_plugins = <<>> /\ system_message = "")
    /\ host_state = "ready" =>
          \A i \in 1..Len(agent_endpoints) :
              /\ ~LacksFunctionName(agent_endpoints[i])
              /\ agent_tools[i].kernel_name = agent_endpoints[i].function_name

\* The construction failed on a list whose last descriptor, after two
\* complete ones, has no function_name.
C13_Witness ==
    /\ host_state = "config_error"
    /\ Len(agent_endpoints) >= 3
    /\ ~LacksFunctionName(agent_endpoints[1])
    /\ ~LacksFunctionName(agent_endpoints[2])
    /\ LacksFunctionName(agent_endpoints[3])

\* C17, as stated: every tool is exposed under exactly the function_name
\* and exactly the description of its descriptor.
C17_ExposedAsStated ==
    host_state = "ready" =>
        \A i \in 1..Len(agent_endpoints) :
            /\ i <= Len(chat_plugins)
            /\ chat_plugins[i].kernel_name = agent_endpoints[i].function_name
            /\ chat_plugins[i].kernel_description
                  = DictGet(agent_endpoints[i], "description", "")

\* C17, amended: every tool is exposed under exactly the function_name of
\* its descriptor, and under the description
\* "Send a request to <name>: <description>".
C17_Exposed ==
    host_state = "ready" =>
        \A i \in 1..Len(agent_endpoints) :
            /\ i <= Len(chat_plugins)
            /\ chat_plugins[i].kernel_name = agent_endpoints[i].function_name
            /\ chat_plugins[i].kernel_description
                  = "Send a request to " \o agent_endpoints[i].name \o ": "
                    \o DictGet(agent_endpoints[i], "description", "")

\* A registry with a constructed and an added endpoint, one of them with
\* an empty description, and the added one called.
C17_Witness ==
    /\ host_state = "ready"
    /\ agent_endpoints = <<FraudEndpoint, OrderEndpoint2>>
    /\ system_message = DefaultSystemMessage(<<FraudEndpoint>>)
    /\ chat_plugins[1].kernel_description = "Send a request to Fraud Agent: "
    /\ proxy.pc = "send"
    /\ proxy.tool.kernel_description = "Send a request to Order-Agent: Manages orders"

Letters == "ABCDEFGHIJKLMNOPQRSTUVWXYZabcdefghijklmnopqrstuvwxyz_"

Digits == "0123456789"

CharsOf(s) == { SubSeq(s, i, i) : i \in 1..Len(s) }

\* A callable identifier: a letter or underscore, then letters, digits and
\* underscores.
IsIdentifier(s) ==
    /\ Len(s) > 0
    /\ SubSeq(s, 1, 1) \in CharsOf(Letters)
    /\ \A i \in 1..Len(s) : SubSeq(s, i, i) \in CharsOf(Letters) \cup CharsOf(Digits)

\* C18: every binding of the registry has a function_name that is a valid
\* identifier.
C18_ValidIdentifiers ==
    host_state = "ready" =>
        \A i \in 1..Len(agent_tools) : IsIdentifier(agent_tools[i].function_name)

\* C19: a proxy call issues at most one agent-card request and then at
\* most one message-send request, has a reply only after the send, and once
\* it has ended, by a return or a failure, it issues nothing more.
C19_SingleAttempt ==
    /\ [](/\ Len(proxy.log) <= 2
          /\ \A n \in 1..Len(proxy.log) :
                proxy.log[n].request = (IF n = 1 THEN "agent_card" ELSE "send_message")
          /\ proxy.replied => Len(proxy.log) = 2)
    /\ [][ProxyEnded => (proxy' = proxy \/ proxy' = IdleProxy)]_vars

\* The send timed out after the card was fetched, and the call has ended.
C19_Witness ==
    /\ proxy.pc = "returned"
    /\ proxy.timed_out
    /\ ~proxy.replied
    /\ Len(proxy.log) = 2

(***************************************************************************)
(* Claims on a single turn (specification Spec).                           *)
(***************************************************************************)
TurnMessages(c) == heap[calls[c].chat_history].messages

\* No other turn touched the conversation between the beginning of the
\* turn of c and its return.
TurnUndisturbed(c) ==
    /\ calls[c].alone
    /\ \A i \in (calls[c].base + 1)..calls[c].at_end : TurnMessages(c)[i].by = c

\* C16: a turn suspended in get_response has appended (user, input), and a
\* turn that returned with no other turn in flight on its context id has
\* extended the conversation by exactly (user, input), (assistant, reply),
\* in that order, and has returned the content of the assistant turn.
C16_TurnAppendsTwo ==
    \A c \in CallIds :
        /\ (Started(c) /\ calls[c].pc = "awaiting") =>
              /\ Len(TurnMessages(c)) > calls[c].base
              /\ TurnMessages(c)[calls[c].base + 1]
                    = ChatMessageContent("user", calls[c].user_input, c)
        /\ (Started(c) /\ calls[c].pc = "returned" /\ TurnUndisturbed(c)) =>
              /\ calls[c].at_end = calls[c].base + 2
              /\ TurnMessages(c)[calls[c].base + 1]
                    = ChatMessageContent("user", calls[c].user_input, c)
              /\ TurnMessages(c)[calls[c].base + 2]
                    = ChatMessageContent("assistant", calls[c].result, c)
              /\ calls[c].result \in Replies

\* The second turn of a conversation returned, the first having returned
\* before it began.
C16_Witness ==
    \E c \in CallIds :
        /\ Started(c)
        /\ calls[c].pc = "returned"
        /\ TurnUndisturbed(c)
        /\ calls[c].base = 2
        /\ calls[c].at_end = 4


(***************************************************************************)
(* Claims on add_agent_endpoint against in-flight work (SpecHost).         *)
(***************************************************************************)
\* C21: the chat agent and every turn hold whole binding lists (the list a
\* turn was offered is the registry's list up to some add), an add extends
\* the three lists in one step and touches no binding built before, and a
\* proxy call in flight keeps its tool and sends every request to that
\* tool's url.
C21_AddAtomic ==
    /\ [](host_state = "ready" =>
            /\ chat_plugins = agent_tools
            /\ \A c \in CallIds :
                  calls[c].agent = "host" =>
                      /\ Len(calls[c].offered) <= Len(agent_tools)
                      /\ calls[c].offered
                            = SubSeq(agent_tools, 1, Len(calls[c].offered))
            /\ proxy.pc # "idle" =>
                  \A n \in 1..Len(proxy.log) :
                      proxy.log[n].url = proxy.tool.agent_url)
    /\ [][(host_state = "ready" /\ agent_tools' # agent_tools) =>
              /\ Len(agent_tools') = Len(agent_tools) + 1
              /\ SubSeq(agent_tools', 1, Len(agent_tools)) = agent_tools
              /\ chat_plugins' = agent_tools'
              /\ Len(agent_endpoints') = Len(agent_endpoints) + 1
              /\ (proxy.pc # "idle" => proxy' = proxy)]_vars

\* An endpoint was added while a proxy call was suspended in send_message:
\* the turn holds the list from before the add, the registry the list after.
C21_Witness ==
    /\ proxy.pc = "send"
    /\ Len(calls[proxy.caller].offered) < Len(agent_tools)
    /\ proxy.tool = agent_tools[1]
    /\ proxy.log[2].url = agent_endpoints[1].url


(***************************************************************************)
(* Further claims on turns and initialization (Spec, SpecLife).            *)
(***************************************************************************)
\* The step is taken by call c.
StepOf(c) == calls'[c] # calls[c]

\* C22: no step of a turn-processing call with empty input changes the
\* conversation store or the lifecycle state of the agent.
C22_EmptyInputNoTransition ==
    [][\A c \in CallIds :
          (StepOf(c) /\ calls'[c].user_input = ""
                     /\ calls'[c].op \in {"process_request", "orchestrate"}) =>
              /\ history_store' = history_store
              /\ heap' = heap
              /\ plugins_initialized' = plugins_initialized
              /\ mcp_plugins' = mcp_plugins
              /\ chat_agent' = chat_agent]_vars

\* C23: a call that arrives on a worker whose initialization has completed
\* starts no handshake and leaves the plugin list and the chat agent as they
\* are.
C23_InitializeIdempotent ==
    [][\A c \in CallIds :
          (plugins_initialized /\ calls[c].pc = "new" /\ StepOf(c)
                               /\ calls'[c].agent = "worker") =>
              /\ calls'[c].pc # "init"
              /\ calls'[c].hs = <<>>
              /\ mcp_plugins' = mcp_plugins
              /\ chat_agent' = chat_agent
              /\ plugins_initialized']_vars

\* A turn that arrived after the initialization of another call had opened
\* a plugin, and went straight to get_response.
C23_Witness ==
    /\ plugins_initialized
    /\ Len(mcp_plugins) > 0
    /\ \E c, d \in CallIds :
          /\ d < c
          /\ calls[d].hs = <<TRUE>>
          /\ calls[d].pc # "init"
          /\ calls[c].op = "process_request"
          /\ calls[c].hs = <<>>
          /\ calls[c].pc = "awaiting"

\* C25: at most one call runs the handshakes, the plugin list holds no two
\* connections for one source, and no call has built the chat agent after
\* another did.
C25_InitializedOnce ==
    /\ Cardinality({ c \in CallIds : calls[c].i > 0 }) <= 1
    /\ \A i, j \in 1..Len(mcp_plugins) :
          i # j => mcp_plugins[i].url # mcp_plugins[j].url

\* The roles of a conversation.
Roles(msgs) == [i \in 1..Len(msgs) |-> msgs[i].role]

Alternating(roles) ==
    /\ Len(roles) % 2 = 0
    /\ \A i \in 1..Len(roles) :
          roles[i] = (IF i % 2 = 1 THEN "user" ELSE "assistant")

\* C27: a conversation with no turn in flight is user, assistant, user,
\* assistant, ..., ending with an assistant turn.
C27_Alternating ==
    \A ag \in Agents, cid \in CtxIds :
        (/\ history_store[ag][cid] # 0
         /\ \A c \in CallIds :
               ~(calls[c].agent = ag /\ calls[c].context_id = cid
                                     /\ calls[c].pc \in {"init", "awaiting"}))
            => Alternating(Roles(Messages(ag, cid)))


(***************************************************************************)
(* Claims on the two lists of the registry (SpecRegistry).                 *)
(***************************************************************************)
\* C26: the endpoint list and the tool list have the same length and the
\* i-th tool was built from the i-th endpoint, whether or not a call of
\* add_agent_endpoint failed.
C26_ListsAligned ==
    host_state = "ready" =>
        /\ Len(agent_tools) = Len(agent_endpoints)
        /\ \A i \in 1..Len(agent_endpoints) :
              /\ agent_tools[i].agent_url = agent_endpoints[i].url
              /\ agent_tools[i].agent_name = agent_endpoints[i].name
              /\ agent_tools[i].function_name = agent_endpoints[i].function_name

(***************************************************************************)
(* Claims on the server wrapper and the executor (specification            *)
(* SpecServer).                                                            *)
(***************************************************************************)
\* C24: on every path by which run_agent_server or AgentServer.start
\* terminates after initialize_plugins has opened at least one plugin
\* connection (normal shutdown, an exception while serving, an exception
\* while building the executor, request handler or application),
\* agent.cleanup has been invoked before control leaves the function.
C24_CleanupGuaranteed ==
    (server.pc = "exited" /\ mcp_plugins # <<>>) => cleanup.pc # "idle"

\* The agent text messages of an event queue
TextMessages(q) == SelectSeq(q, LAMBDA e : e.kind = "message")

\* The events of an execute call that has returned: the new task when the
\* request had none, then one text message with the reply of process_request
\* or with "Error: " and the detail of its exception.
ExpectedEvents(c) ==
    (IF executor[c].had_task THEN <<>> ELSE <<TaskEvent>>)
    \o <<AgentTextMessage(IF calls[c].pc = "returned"
                          THEN calls[c].result
                          ELSE "Error: " \o calls[c].error)>>

\* C28: every execute call enqueues exactly one agent text message, after
\* the new-task event when the request had no current task: the agent's
\* reply when process_request returns, "Error: <detail>" when it raises (the
\* empty-input error included); execute never raises because the agent
\* failed; cancel always raises and enqueues nothing.
C28_ExecuteReplies ==
    /\ [](\A c \in CallIds :
             /\ executor[c].pc # "raised"
             /\ executor[c].pc = "returned" =>
                   /\ calls[c].pc \in {"returned", "raised"}
                   /\ event_queue[c] = ExpectedEvents(c)
             /\ executor[c].pc # "returned" =>
                   TextMessages(event_queue[c]) = <<>>)
    /\ [][\A c \in CallIds :
             executor'[c].cancel # executor[c].cancel =>
                 /\ executor'[c].cancel = "raised"
                 /\ event_queue' = event_queue]_vars

\* An execute call without a current task whose process_request raised the
\* empty-input error has returned with the task and the error message
\* enqueued, and a cancel was made with its event queue.
C28_Witness ==
    \E c \in CallIds :
        /\ executor[c].pc = "returned"
        /\ ~executor[c].had_task
        /\ calls[c].pc = "raised"
        /\ calls[c].error = EmptyInputError
        /\ event_queue[c] = <<TaskEvent,
                              AgentTextMessage("Error: User input cannot be empty.")>>
        /\ executor[c].cancel = "raised"

(***************************************************************************)
(* Claim on the inventory tools (specification SpecInventory).             *)
(***************************************************************************)
\* C29: starting from 0 <= quantity_reserved <= quantity_available, after
\* any sequence or interleaving of reserve_inventory and update_inventory
\* calls, for any integer quantities and over separate connections,
\* 0 <= quantity_reserved <= quantity_available still holds, and every call
\* that reports failure leaves the inventory row unchanged.
C29_ReservedWithinAvailable ==
    /\ 0 <= inventory.quantity_reserved
    /\ inventory.quantity_reserved <= inventory.quantity_available
    /\ \A k \in DbCallIds : db_calls[k].result = "failure" => ~db_calls[k].wrote

(***************************************************************************)
(* Claim on the email monitor (specification SpecMail).                    *)
(***************************************************************************)
IsIncreasing(seq) == \A i, j \in 1..Len(seq) : i < j => seq[i] < seq[j]

\* C30: every email that arrives in the mailbox after the monitor has
\* started is handed to the processing routine exactly once, in mailbox
\* order, for any number of emails arriving between two polls, also when the
\* mailbox was empty at start and when the last-seen id is no longer in the
\* mailbox.  The emails handed on are distinct and in delivery order, and
\* when a poll has run to its end every email that had arrived after the
\* start and before the poll, and is still in the inbox, has been handed on.
C30_EachEmailOnce ==
    monitor.pc # "new" =>
        /\ IsIncreasing(handed)
        /\ monitor.pc = "sleeping" =>
              \A e \in (monitor.started + 1)..monitor.seen :
                  e \notin mailbox.expunged =>
                      \E i \in 1..Len(handed) : handed[i] = e

====
